---- MODULE Spec2Model ----
(***************************************************************************)
(* Model of the example scripts of ai-cookbook:                            *)
(*   2-workflow-patterns/1-prompt-chaining.py  (gate-and-chain)            *)
(*   2-workflow-patterns/2-routing.py          (route-and-dispatch)        *)
(*   1-introduction/2-structured.py, 3-tools.py, 4-retrieval.py            *)
(* The model gateway (client.models.generate_content) is an external       *)
(* collaborator: each call returns a nondeterministically chosen parsed    *)
(* value, which is an instance of the requested schema, None, or a value   *)
(* of another type.  Confidence scores are kept in hundredths.             *)
(***************************************************************************)
EXTENDS Integers, Sequences, FiniteSets, TLC

VARIABLES
    script,              \* which script file is being executed
    run,                 \* index of the module-level call of process_calendar_request
    pc,                  \* position of the interpreter in the script
    user_input,          \* argument of the current process_calendar_request call
    initial_extraction,  \* chaining: local of process_calendar_request
    event_details,       \* chaining: local of process_calendar_request
    route_result,        \* routing: local of process_calendar_request
    details,             \* routing: local of the selected handler
    result,              \* module-level variable receiving the returned value
    outcome,             \* how the current run ended: running / result / none / error
    calls,               \* stage functions entered in the current run, with arguments
    requests,            \* gateway calls made in the current run
    completion,          \* tools scripts: parts of the first response
    contents,            \* tools scripts: the conversation transcript
    part,                \* tools scripts: index of the loop over the parts
    executed,            \* tools scripts: local functions executed, with results
    final_response,      \* introduction scripts: completion.parsed of the last call
    stdout               \* lines printed by the script

vars == <<script, run, pc, user_input, initial_extraction, event_details,
          route_result, details, result, outcome, calls, requests,
          completion, contents, part, executed, final_response, stdout>>

toolVars == <<completion, contents, part, executed>>

-----------------------------------------------------------------------------
(* Bounds of the model                                                     *)

MaxParts == 2

-----------------------------------------------------------------------------
(* Values                                                                  *)

\* Python's None, and the marker of a local that is not bound yet
None == [type |-> "NoneType"]
Unbound == [type |-> "unbound"]

\* a Python str where the field is Optional[str]
Str(s) == [type |-> "str", value |-> s]

\* truth value of an Optional[str] or of an Optional[BaseModel]
Truthy(v) == v.type # "NoneType" /\ (v.type = "str" => v.value # "")

\* confidence_score < 0.7, in hundredths
Threshold == 70

ConfidenceValues == {-10, 0, Threshold - 1, Threshold, Threshold + 1, 100, 150}

Descriptions == {"team meeting tuesday 2pm", "move meeting to wednesday"}

ParticipantLists == {<< >>, <<"Alice", "Bob">>}

EventExtraction ==
    [type : {"EventExtraction"}, description : Descriptions,
     is_calendar_event : BOOLEAN, confidence_score : ConfidenceValues]

EventDetails ==
    [type : {"EventDetails"}, name : {"Team Meeting", "Roadmap"},
     date : {"2026-11-03T14:00"}, duration_minutes : {60},
     participants : ParticipantLists]

EventConfirmation ==
    [type : {"EventConfirmation"},
     confirmation_message : {"Meeting confirmed. Susie", "See you there. Susie"},
     calendar_link : {None, Str(""), Str("https://cal/1")}]

CalendarRequestType ==
    [type : {"CalendarRequestType"},
     request_type : {"new_event", "modify_event", "other"},
     confidence_score : ConfidenceValues, description : Descriptions]

NewEventDetails ==
    [type : {"NewEventDetails"}, name : {"Team Meeting", "Roadmap"},
     date : {"2026-11-03T14:00"}, duration_minutes : {60},
     participants : ParticipantLists]

ModifyEventDetails ==
    [type : {"ModifyEventDetails"}, event_identifier : {"team meeting", "1:1"},
     changes : {<< >>, <<[field |-> "date", new_value |-> "Wednesday 3pm"]>>},
     participants_to_add : {<< >>}, participants_to_remove : {<< >>}]

CalendarEvent ==
    [type : {"CalendarEvent"}, name : {"Science Fair"}, date : {"Friday"},
     participants : {<<"Alice", "Bob">>}]

WeatherResponse ==
    [type : {"WeatherResponse"}, temperature : {12, 30},
     response : {"It is mild in Paris today."}]

KBResponse ==
    [type : {"KBResponse"}, answer : {"Returns are accepted within 30 days."},
     source : {1, 2}]

\* a parsed value of a type no stage of the workflow scripts declares
Foreign == [type |-> "dict"]

Schema(name) ==
    CASE name = "EventExtraction" -> EventExtraction
      [] name = "EventDetails" -> EventDetails
      [] name = "EventConfirmation" -> EventConfirmation
      [] name = "CalendarRequestType" -> CalendarRequestType
      [] name = "NewEventDetails" -> NewEventDetails
      [] name = "ModifyEventDetails" -> ModifyEventDetails
      [] name = "CalendarEvent" -> CalendarEvent
      [] name = "WeatherResponse" -> WeatherResponse
      [] name = "KBResponse" -> KBResponse

\* completion.parsed of a call made with response_schema = name
Parsed(name) == Schema(name) \cup {None, Foreign}

isinstance_not_none(value, name) == value.type # "NoneType"
isinstance(value, name) == value.type = name

-----------------------------------------------------------------------------
(* Module-level drivers                                                    *)

Scripts == {"1-prompt-chaining.py", "2-routing.py", "2-structured.py",
            "3-tools.py", "4-retrieval.py"}

Chaining == "1-prompt-chaining.py"
Routing == "2-routing.py"

\* the user inputs of the module-level calls, in order
ModuleInputs(s) ==
    CASE s = Chaining ->
           <<"Let's schedule a 1h team meeting next Tuesday at 2pm with Alice and Bob to discuss the project roadmap.",
             "Can you send an email to Alice and Bob to discuss the project roadmap?">>
      [] s = Routing ->
           <<"Let's schedule a team meeting next Tuesday at 2pm with Alice and Bob",
             "Can you move the team meeting with Alice and Bob to Wednesday at 3pm instead?",
             "What's the weather like today?">>
      [] OTHER -> << >>

\* the first statement of each script (of process_calendar_request for the
\* workflow scripts)
Entry(s) ==
    CASE s = Chaining -> "extract_event_info"
      [] s = Routing -> "route_calendar_request"
      [] s = "2-structured.py" -> "generate_content"
      [] OTHER -> "generate_content_1"

Call(fn, arg) == [fn |-> fn, arg |-> arg]
\* one exchange with the gateway: the declared schema, the contents sent and
\* the value of completion.parsed (the response itself for a tools call)
Request(schema, text, parsed) ==
    [response_schema |-> schema, contents |-> text, parsed |-> parsed]

Structured == "2-structured.py"
Tools == "3-tools.py"
Retrieval == "4-retrieval.py"

\* types.Content(role=..., parts=[...])
Content(role, parts) == [role |-> role, parts |-> parts]

\* the transcript each tool-calling script starts from
InitialContents(s) ==
    CASE s = Tools ->
           <<Content("user", <<[text |-> "What's the weather like in Paris today?"]>>)>>
      [] s = Retrieval ->
           <<Content("user", <<[text |-> "What is the return policy?"]>>)>>
      [] OTHER -> << >>

Init ==
    /\ script \in Scripts
    /\ run = 1
    /\ pc = Entry(script)
    /\ user_input = IF Len(ModuleInputs(script)) > 0
                     THEN ModuleInputs(script)[1] ELSE ""
    /\ initial_extraction = Unbound
    /\ event_details = Unbound
    /\ route_result = Unbound
    /\ details = Unbound
    /\ result = Unbound
    /\ outcome = "running"
    /\ calls = << >>
    /\ requests = << >>
    /\ completion = Unbound
    /\ contents = InitialContents(script)
    /\ part = 0
    /\ executed = << >>
    /\ final_response = Unbound
    /\ stdout = << >>

\* an assertion or attribute error propagates to the top level: the script dies
Raise_swallowed ==
    /\ pc' = "module_print"
    /\ outcome' = "none"
Raise_retry ==
    /\ pc' = pc
    /\ outcome' = "running"
Raise ==
    /\ pc' = "raised"
    /\ outcome' = "error"

\* process_calendar_request returns value to the module-level assignment
Return(value) ==
    /\ result' = value
    /\ outcome' = IF value = None THEN "none" ELSE "result"
    /\ pc' = "module_print"

-----------------------------------------------------------------------------
(* 1-prompt-chaining.py                                                    *)

\* the gate of process_calendar_request
GateFails_flag_only(e) == ~ e.is_calendar_event
GateFails_inclusive(e) == (~ e.is_calendar_event) \/ e.confidence_score <= Threshold
GateFails_confidence_only(e) == e.confidence_score < Threshold
GateFails(e) == (~ e.is_calendar_event) \/ e.confidence_score < Threshold

\* event_details.model_dump(): the fields as a dict
model_dump(d) == [f \in DOMAIN d \ {"type"} |-> d[f]]

\* the argument process_calendar_request passes to parse_event_details
Stage2Argument_raw_input(extraction, input) == input
Stage2Argument(extraction, input) == extraction.description

\* extract_event_info(user_input), called at the top of process_calendar_request
ExtractEventInfo ==
    /\ script = Chaining /\ pc = "extract_event_info"
    /\ calls' = Append(calls, Call("extract_event_info", user_input))
    /\ \E parsed \in Parsed("EventExtraction") :
         /\ requests' = Append(requests,
                          Request("EventExtraction", user_input, parsed))
         /\ IF isinstance(parsed, "EventExtraction")
            THEN /\ initial_extraction' = parsed
                 /\ pc' = "gate"
                 /\ UNCHANGED outcome
            ELSE /\ Raise
                 /\ UNCHANGED initial_extraction
    /\ UNCHANGED <<script, run, user_input, event_details, route_result,
                   details, result, toolVars, final_response, stdout>>

\* the gate check of process_calendar_request
GateCheck ==
    /\ script = Chaining /\ pc = "gate"
    /\ IF GateFails(initial_extraction)
       THEN Return(None)
       ELSE /\ pc' = "parse_event_details"
            /\ UNCHANGED <<result, outcome>>
    /\ UNCHANGED <<script, run, user_input, initial_extraction, event_details,
                   route_result, details, calls, requests, toolVars,
                   final_response, stdout>>

\* parse_event_details(initial_extraction.description)
ParseEventDetails ==
    /\ script = Chaining /\ pc = "parse_event_details"
    /\ LET description == Stage2Argument(initial_extraction, user_input) IN
         /\ calls' = Append(calls, Call("parse_event_details", description))
         /\ \E parsed \in Parsed("EventDetails") :
              /\ requests' = Append(requests,
                               Request("EventDetails", description, parsed))
              /\ IF isinstance(parsed, "EventDetails")
                 THEN /\ event_details' = parsed
                      /\ pc' = "generate_confirmation"
                      /\ UNCHANGED outcome
                 ELSE /\ Raise
                      /\ UNCHANGED event_details
    /\ UNCHANGED <<script, run, user_input, initial_extraction, route_result,
                   details, result, toolVars, final_response, stdout>>

\* generate_confirmation(event_details) and the return of its value
GenerateConfirmation ==
    /\ script = Chaining /\ pc = "generate_confirmation"
    /\ calls' = Append(calls, Call("generate_confirmation", event_details))
    /\ \E parsed \in Parsed("EventConfirmation") :
         /\ requests' = Append(requests,
                Request("EventConfirmation", model_dump(event_details), parsed))
         /\ IF isinstance(parsed, "EventConfirmation")
            THEN Return(parsed)
            ELSE /\ Raise
                 /\ UNCHANGED result
    /\ UNCHANGED <<script, run, user_input, initial_extraction, event_details,
                   route_result, details, toolVars, final_response, stdout>>

\* the lines the module prints after a call of process_calendar_request
ChainingOutput(r) ==
    IF Truthy(r)
    THEN <<"Confirmation: " \o r.confirmation_message>>
         \o (IF Truthy(r.calendar_link)
             THEN <<"Calendar link: " \o r.calendar_link.value>> ELSE << >>)
    ELSE <<"This doesn't appear to be a calendar event request.">>

\* the next module-level call of process_calendar_request, in a fresh frame
NextRun_keeps_frame ==
    IF run < Len(ModuleInputs(script))
    THEN /\ run' = run + 1
         /\ user_input' = ModuleInputs(script)[run + 1]
         /\ pc' = Entry(script)
         /\ outcome' = "running"
         /\ UNCHANGED <<initial_extraction, event_details, route_result,
                        details, calls, requests>>
    ELSE /\ pc' = "exit"
         /\ UNCHANGED <<run, user_input, outcome, initial_extraction,
                        event_details, route_result, details, calls, requests>>
NextRun ==
    IF run < Len(ModuleInputs(script))
    THEN /\ run' = run + 1
         /\ user_input' = ModuleInputs(script)[run + 1]
         /\ pc' = Entry(script)
         /\ outcome' = "running"
         /\ initial_extraction' = Unbound
         /\ event_details' = Unbound
         /\ route_result' = Unbound
         /\ details' = Unbound
         /\ calls' = << >>
         /\ requests' = << >>
    ELSE /\ pc' = "exit"
         /\ UNCHANGED <<run, user_input, outcome, initial_extraction,
                        event_details, route_result, details, calls, requests>>

\* module level of 1-prompt-chaining.py after each call
ChainingPrint ==
    /\ script = Chaining /\ pc = "module_print"
    /\ stdout' = stdout \o ChainingOutput(result)
    /\ NextRun
    /\ UNCHANGED <<script, result, toolVars, final_response>>

-----------------------------------------------------------------------------
(* 2-routing.py                                                            *)

\* ', '.join(participants)
RECURSIVE join(_)
join(items) ==
    IF Len(items) = 0 THEN ""
    ELSE IF Len(items) = 1 THEN items[1]
    ELSE items[1] \o ", " \o join(Tail(items))

CalendarResponse(success, message, calendar_link) ==
    [type |-> "CalendarResponse", success |-> success, message |-> message,
     calendar_link |-> calendar_link]

\* the response handle_new_event builds from the parsed details
NewEventResponse(d) ==
    CalendarResponse(TRUE,
        "Created new event '" \o d.name \o "' for " \o d.date \o " with "
            \o join(d.participants),
        Str("calendar>//new?event=" \o d.name))

\* the response handle_modify_event builds from the parsed details
ModifyEventResponse(d) ==
    CalendarResponse(TRUE,
        "Modified event '" \o d.event_identifier \o "' with the requested changes",
        Str("calendar://modify?event=" \o d.event_identifier))

\* the confidence threshold of process_calendar_request
LowConfidence_inverted(r) == r.confidence_score > Threshold
LowConfidence(r) == r.confidence_score < Threshold

\* the match statement of process_calendar_request: the handler of a tag
Handler_default_modify(request_type) ==
    CASE request_type = "new_event" -> "handle_new_event"
      [] OTHER -> "handle_modify_event"
Handler(request_type) ==
    CASE request_type = "new_event" -> "handle_new_event"
      [] request_type = "modify_event" -> "handle_modify_event"
      [] OTHER -> "none"

\* the argument process_calendar_request passes to the handler
HandlerArgument_raw_input(route, input) == input
HandlerArgument(route, input) == route.description

\* route_calendar_request(user_input)
RouteCalendarRequest ==
    /\ script = Routing /\ pc = "route_calendar_request"
    /\ calls' = Append(calls, Call("route_calendar_request", user_input))
    /\ \E parsed \in Parsed("CalendarRequestType") :
         /\ requests' = Append(requests,
                          Request("CalendarRequestType", user_input, parsed))
         /\ IF isinstance(parsed, "CalendarRequestType")
            THEN /\ route_result' = parsed
                 /\ pc' = "confidence_check"
                 /\ UNCHANGED outcome
            ELSE /\ Raise
                 /\ UNCHANGED route_result
    /\ UNCHANGED <<script, run, user_input, initial_extraction, event_details,
                   details, result, toolVars, final_response, stdout>>

\* the confidence threshold check of process_calendar_request
ConfidenceCheck ==
    /\ script = Routing /\ pc = "confidence_check"
    /\ IF LowConfidence(route_result)
       THEN Return(None)
       ELSE /\ pc' = "match"
            /\ UNCHANGED <<result, outcome>>
    /\ UNCHANGED <<script, run, user_input, initial_extraction, event_details,
                   route_result, details, calls, requests, toolVars,
                   final_response, stdout>>

\* the match on route_result.request_type
Match ==
    /\ script = Routing /\ pc = "match"
    /\ IF Handler(route_result.request_type) = "none"
       THEN Return(None)
       ELSE /\ pc' = Handler(route_result.request_type)
            /\ UNCHANGED <<result, outcome>>
    /\ UNCHANGED <<script, run, user_input, initial_extraction, event_details,
                   route_result, details, calls, requests, toolVars,
                   final_response, stdout>>

\* handle_new_event(route_result.description) and the return of its response
HandleNewEvent ==
    /\ script = Routing /\ pc = "handle_new_event"
    /\ LET description == HandlerArgument(route_result, user_input) IN
         /\ calls' = Append(calls, Call("handle_new_event", description))
         /\ \E parsed \in Parsed("NewEventDetails") :
              /\ requests' = Append(requests,
                               Request("NewEventDetails", description, parsed))
              /\ IF isinstance(parsed, "NewEventDetails")
                 THEN /\ details' = parsed
                      /\ Return(NewEventResponse(parsed))
                 ELSE /\ Raise
                      /\ UNCHANGED <<details, result>>
    /\ UNCHANGED <<script, run, user_input, initial_extraction, event_details,
                   route_result, toolVars, final_response, stdout>>

\* handle_modify_event(route_result.description) and the return of its response
HandleModifyEvent ==
    /\ script = Routing /\ pc = "handle_modify_event"
    /\ LET description == HandlerArgument(route_result, user_input) IN
         /\ calls' = Append(calls, Call("handle_modify_event", description))
         /\ \E parsed \in Parsed("ModifyEventDetails") :
              /\ requests' = Append(requests,
                               Request("ModifyEventDetails", description, parsed))
              /\ IF isinstance(parsed, "ModifyEventDetails")
                 THEN /\ details' = parsed
                      /\ Return(ModifyEventResponse(parsed))
                 ELSE /\ Raise
                      /\ UNCHANGED <<details, result>>
    /\ UNCHANGED <<script, run, user_input, initial_extraction, event_details,
                   route_result, toolVars, final_response, stdout>>

\* the lines the module prints after the n-th call of process_calendar_request
RoutingOutput(n, r) ==
    IF n < 3
    THEN (IF Truthy(r) THEN <<"Response: " \o r.message>> ELSE << >>)
    ELSE (IF ~ Truthy(r)
          THEN <<"Request not recognized as a calendar operation">> ELSE << >>)

\* module level of 2-routing.py after each call
RoutingPrint ==
    /\ script = Routing /\ pc = "module_print"
    /\ stdout' = stdout \o RoutingOutput(run, result)
    /\ NextRun
    /\ UNCHANGED <<script, result, toolVars, final_response>>

-----------------------------------------------------------------------------
(* 1-introduction: 2-structured.py, 3-tools.py, 4-retrieval.py             *)

\* the printed form of an object: None prints as None, the form of any other
\* object is left uninterpreted
repr(v) == IF DOMAIN v = {"type"} /\ v.type = "NoneType" THEN "None" ELSE ToString(v)

\* the script runs off its last statement
Exit ==
    /\ pc' = "exit"
    /\ outcome' = "completed"

\* 2-structured.py: the structured call and print(completion.text)
StructuredCall ==
    /\ script = Structured /\ pc = "generate_content"
    /\ \E parsed \in Parsed("CalendarEvent") :
         /\ requests' = Append(requests,
                Request("CalendarEvent",
                        "Alice and Bob are going to a science fair on Friday",
                        parsed))
         /\ final_response' = parsed
         /\ stdout' = Append(stdout,
                IF isinstance(parsed, "CalendarEvent")
                THEN repr(model_dump(parsed)) ELSE "<text that did not parse>")
    /\ pc' = "event_name"
    /\ UNCHANGED <<script, run, user_input, initial_extraction, event_details,
                   route_result, details, result, outcome, calls, toolVars>>

\* 2-structured.py: event.name, event.date, event.participants
StructuredUse ==
    /\ script = Structured /\ pc = "event_name"
    /\ IF isinstance(final_response, "CalendarEvent") THEN Exit ELSE Raise
    /\ UNCHANGED <<script, run, user_input, initial_extraction, event_details,
                   route_result, details, result, calls, requests, toolVars,
                   final_response, stdout>>

\* the function calls the model may request
FunctionCalls ==
    {[name |-> "get_weather", args |-> [latitude |-> 48, longitude |-> 2]],
     [name |-> "get_weather", args |-> [city |-> "Paris"]],
     [name |-> "search_kb", args |-> [question |-> "return policy"]]}

\* the parts of a response: text parts and function-call parts
Parts ==
    {[function_call |-> None, text |-> Str("Let me check.")]}
        \cup {[function_call |-> f, text |-> None] : f \in FunctionCalls}

PartSeqs == UNION {[1..n -> Parts] : n \in 0..MaxParts}

\* completion.candidates[0].content.parts of the first response; the
\* gateway may also answer with parts = None (parts_is_none)
FirstResponses ==
    {[parts_is_none |-> FALSE, parts |-> p] : p \in PartSeqs}
        \cup {[parts_is_none |-> TRUE, parts |-> << >>]}

\* what the local function of each script returns when it does not raise
LocalResults(s) ==
    IF s = Tools
    THEN {[temperature_2m |-> 12, wind_speed_10m |-> 5]}
    ELSE {[records |-> <<[id |-> 1, question |-> "What is the return policy?"]>>]}

\* the one function name call_function of each script knows
LocalFunction(s) == IF s = Tools THEN "get_weather" ELSE "search_kb"

\* the keyword arguments the local function of each script accepts
Parameters(s) == IF s = Tools THEN {"latitude", "longitude"} ELSE {"question"}

\* call_function(name, args): the set of values it may return, and whether
\* it may raise (bad keyword arguments, a failed HTTP request or file read)
CallFunctionResults(s, name, args) ==
    IF name # LocalFunction(s) THEN {None}
    ELSE IF DOMAIN args # Parameters(s) THEN {}
    ELSE LocalResults(s)

CallFunctionMayRaise(s, name, args) == name = LocalFunction(s)

\* where the loop over the parts goes with index i
LoopPc(parts, i) == IF i <= Len(parts) THEN "for_part" ELSE "generate_content_2"

\* the first model call of 3-tools.py and 4-retrieval.py, tools declared
FirstCall ==
    /\ script \in {Tools, Retrieval} /\ pc = "generate_content_1"
    /\ \E response \in FirstResponses :
         /\ requests' = Append(requests, Request("tools", contents, response))
         /\ completion' = response
         /\ IF script = Tools
            THEN /\ pc' = "inspect_first_part"
                 /\ UNCHANGED <<stdout, outcome>>
            ELSE /\ stdout' = Append(stdout, "<bound method BaseModel.model_dump>")
                 /\ IF response.parts_is_none
                    THEN Raise
                    ELSE /\ pc' = LoopPc(response.parts, 1)
                         /\ UNCHANGED outcome
    /\ part' = 1
    /\ UNCHANGED <<script, run, user_input, initial_extraction, event_details,
                   route_result, details, result, calls, contents, executed,
                   final_response>>

\* 3-tools.py: the inspection of parts[0] of the first response
InspectFirstPart ==
    /\ script = Tools /\ pc = "inspect_first_part"
    /\ IF completion.parts_is_none \/ completion.parts = << >>
       THEN /\ Raise
            /\ UNCHANGED stdout
       ELSE /\ LET first == completion.parts[1] IN
                 stdout' = stdout \o
                     (IF first.function_call # None
                      THEN <<"Function to call: " \o first.function_call.name,
                             "Arguments: " \o repr(first.function_call.args)>>
                      ELSE <<"No function call found in the response.",
                             first.text.value>>)
            /\ pc' = LoopPc(completion.parts, 1)
            /\ UNCHANGED outcome
    /\ UNCHANGED <<script, run, user_input, initial_extraction, event_details,
                   route_result, details, result, calls, requests, toolVars,
                   final_response>>

\* the two turns the loop appends for one function call: the model turn
\* carrying the call, then the user turn carrying the function response
ToolTurns_result_only(tool_call, function_result) ==
    <<Content("user",
        <<[function_response |->
             [name |-> tool_call.name,
              response |-> [result |-> function_result]]]>>)>>
ToolTurns(tool_call, function_result) ==
    <<Content("model", <<[function_call |-> tool_call]>>),
      Content("user",
        <<[function_response |->
             [name |-> tool_call.name,
              response |-> [result |-> function_result]]]>>)>>

\* one iteration of the loop over the parts of the first response
ForPart ==
    /\ script \in {Tools, Retrieval} /\ pc = "for_part"
    /\ LET tool_call == completion.parts[part].function_call IN
         IF tool_call = None
         THEN /\ pc' = LoopPc(completion.parts, part + 1)
              /\ part' = part + 1
              /\ UNCHANGED <<contents, executed, stdout, outcome>>
         ELSE \/ /\ CallFunctionMayRaise(script, tool_call.name, tool_call.args)
                 /\ Raise
                 /\ UNCHANGED <<contents, executed, stdout, part>>
              \/ \E function_result \in
                       CallFunctionResults(script, tool_call.name, tool_call.args) :
                   /\ executed' = Append(executed,
                          [fn |-> tool_call.name, arg |-> tool_call.args,
                           result |-> function_result])
                   /\ stdout' = Append(stdout,
                          "Function execution result: " \o repr(function_result))
                   /\ contents' = contents \o ToolTurns(tool_call, function_result)
                   /\ pc' = LoopPc(completion.parts, part + 1)
                   /\ part' = part + 1
                   /\ UNCHANGED outcome
    /\ UNCHANGED <<script, run, user_input, initial_extraction, event_details,
                   route_result, details, result, calls, requests, completion,
                   final_response>>

\* the schema each tool-calling script declares for its second model call
FinalSchema(s) == IF s = Tools THEN "WeatherResponse" ELSE "KBResponse"

\* the second model call: final_response = completion2.parsed
FinalCall ==
    /\ script \in {Tools, Retrieval} /\ pc = "generate_content_2"
    /\ \E parsed \in Parsed(FinalSchema(script)) :
         /\ requests' = Append(requests,
                          Request(FinalSchema(script), contents, parsed))
         /\ final_response' = parsed
    /\ pc' = "print_final"
    /\ UNCHANGED <<script, run, user_input, initial_extraction, event_details,
                   route_result, details, result, outcome, calls, toolVars, stdout>>

\* 3-tools.py: print(final_response.response); print(final_response.temperature)
ToolsPrintFinal ==
    /\ script = Tools /\ pc = "print_final"
    /\ IF isinstance(final_response, "WeatherResponse")
       THEN /\ stdout' = stdout \o <<final_response.response,
                                      ToString(final_response.temperature)>>
            /\ Exit
       ELSE /\ Raise
            /\ UNCHANGED stdout
    /\ UNCHANGED <<script, run, user_input, initial_extraction, event_details,
                   route_result, details, result, calls, requests, toolVars,
                   final_response>>

\* 4-retrieval.py: print(final_response)
RetrievalPrintFinal ==
    /\ script = Retrieval /\ pc = "print_final"
    /\ stdout' = Append(stdout, repr(final_response))
    /\ Exit
    /\ UNCHANGED <<script, run, user_input, initial_extraction, event_details,
                   route_result, details, result, calls, requests, toolVars,
                   final_response>>

-----------------------------------------------------------------------------
(* The specification                                                       *)

Next ==
    \/ ExtractEventInfo
    \/ GateCheck
    \/ ParseEventDetails
    \/ GenerateConfirmation
    \/ ChainingPrint
    \/ RouteCalendarRequest
    \/ ConfidenceCheck
    \/ Match
    \/ HandleNewEvent
    \/ HandleModifyEvent
    \/ RoutingPrint
    \/ StructuredCall
    \/ StructuredUse
    \/ FirstCall
    \/ InspectFirstPart
    \/ ForPart
    \/ FinalCall
    \/ ToolsPrintFinal
    \/ RetrievalPrintFinal

Spec == Init /\ [][Next]_vars

\* the interpreter always executes the next statement and every gateway call
\* returns: a script that can take a step eventually takes one
FairSpec == Spec /\ WF_vars(Next)

TypeOK ==
    /\ script \in Scripts
    /\ outcome \in {"running", "result", "none", "error", "completed"}

-----------------------------------------------------------------------------
(* Properties                                                              *)

\* the stage function fn has been entered in the current run
Entered(fn) == \E i \in 1..Len(calls) : calls[i].fn = fn

\* the i-th gateway exchange of the run returned an instance of its schema
Conforms(i) == requests[i].parsed.type = requests[i].response_schema

\* process_calendar_request has returned (or the script has ended after it)
Returned == pc \in {"module_print", "exit"}

\* C1: in the chaining orchestrator, once stage 1 has returned a confidence
\* below 0.7, neither stage 2 nor stage 3 is invoked and the run returns
\* None, whatever is_calendar_event is.
C1_LowConfidenceReturnsNone ==
    (/\ script = Chaining
     /\ initial_extraction.type = "EventExtraction"
     /\ initial_extraction.confidence_score < 70)
    => /\ ~ Entered("parse_event_details")
       /\ ~ Entered("generate_confirmation")
       /\ Len(requests) = 1
       /\ pc \in {"gate", "module_print", "exit"}
       /\ (Returned => result = None /\ outcome = "none")

C1_Witness ==
    /\ script = Chaining /\ pc = "module_print"
    /\ initial_extraction.type = "EventExtraction"
    /\ initial_extraction.confidence_score < 70
    /\ initial_extraction.is_calendar_event
    /\ result = None

\* C2: in the chaining orchestrator, once stage 1 has classified the input as
\* not a calendar event, the run returns None without invoking stage 2 or
\* stage 3, for every confidence value.
C2_NotCalendarEventShortCircuits ==
    (/\ script = Chaining
     /\ initial_extraction.type = "EventExtraction"
     /\ ~ initial_extraction.is_calendar_event)
    => /\ calls = <<Call("extract_event_info", user_input)>>
       /\ Len(requests) = 1
       /\ pc \in {"gate", "module_print", "exit"}
       /\ (Returned => result = None /\ outcome = "none")

C2_Witness ==
    /\ script = Chaining /\ pc = "module_print"
    /\ initial_extraction.type = "EventExtraction"
    /\ ~ initial_extraction.is_calendar_event
    /\ initial_extraction.confidence_score >= 70
    /\ result = None

\* every gateway exchange of the run so far returned an instance of its schema
AllConform == \A i \in 1..Len(requests) : Conforms(i)

\* stage 1 has returned an extraction that passes the gate
ChainGatePassed ==
    /\ Len(requests) >= 1
    /\ Conforms(1)
    /\ requests[1].parsed.is_calendar_event
    /\ ~ (requests[1].parsed.confidence_score < 70)

\* C3: in the chaining orchestrator, when the gate passes and every stage
\* output validates, the stages run in the order 1, 2, 3, each once; stage 2
\* receives the description of stage 1's output, stage 3 receives stage 2's
\* output, and the run returns exactly stage 3's output.
C3_ChainOrderAndDataFlow ==
    (script = Chaining /\ ChainGatePassed /\ AllConform)
    => /\ Len(calls) = Len(requests)
       /\ Len(calls) <= 3
       /\ calls[1] = Call("extract_event_info", user_input)
       /\ (Len(calls) >= 2 =>
             calls[2] = Call("parse_event_details", requests[1].parsed.description))
       /\ (Len(calls) >= 3 =>
             calls[3] = Call("generate_confirmation", requests[2].parsed))
       /\ outcome \in {"running", "result"}
       /\ (Returned <=> Len(calls) = 3)
       /\ (Returned => result = requests[3].parsed /\ outcome = "result")

C3_Witness ==
    /\ script = Chaining /\ pc = "module_print"
    /\ ChainGatePassed /\ AllConform
    /\ Len(calls) = 3
    /\ result.type = "EventConfirmation"
    /\ user_input # requests[1].parsed.description

\* the routing stage has returned a discriminant
Routed == script = Routing /\ route_result.type = "CalendarRequestType"

HandlerEntered == Entered("handle_new_event") \/ Entered("handle_modify_event")

\* C4: in the routing orchestrator, once the routing stage has returned a
\* confidence below 0.7, no handler is invoked and the run returns None, for
\* every request_type: the dispatch on the tag is never reached.
C4_RouterLowConfidenceReturnsNone ==
    (Routed /\ route_result.confidence_score < 70)
    => /\ ~ HandlerEntered
       /\ Len(requests) = 1
       /\ pc \in {"confidence_check", "module_print", "exit"}
       /\ (Returned => result = None /\ outcome = "none")

C4_Witness ==
    /\ Routed /\ pc = "module_print"
    /\ route_result.confidence_score < 70
    /\ route_result.request_type = "new_event"
    /\ result = None

\* the handler and the schema that belong to a tag
HandlerOf(tag) ==
    IF tag = "new_event" THEN "handle_new_event" ELSE "handle_modify_event"
SchemaOf(tag) ==
    IF tag = "new_event" THEN "NewEventDetails" ELSE "ModifyEventDetails"

\* C5: in the routing orchestrator, when the confidence gate passes and the
\* tag is new_event or modify_event, once the dispatch is done exactly the
\* handler of the tag has been invoked, once, with the description of the
\* routing result; it has made one model call with its own schema, and the
\* response it builds from the parsed details is the value the run returns.
C5_DispatchToMatchingHandler ==
    (/\ Routed
     /\ route_result.confidence_score >= 70
     /\ route_result.request_type \in {"new_event", "modify_event"}
     /\ pc \notin {"confidence_check", "match"})
    => LET tag == route_result.request_type IN
       /\ pc \in {HandlerOf(tag), "module_print", "exit", "raised"}
       /\ (pc = HandlerOf(tag) =>
             calls = <<Call("route_calendar_request", user_input)>>)
       /\ (pc # HandlerOf(tag) =>
             /\ calls = <<Call("route_calendar_request", user_input),
                          Call(HandlerOf(tag), route_result.description)>>
             /\ Len(requests) = 2
             /\ requests[2].response_schema = SchemaOf(tag)
             /\ requests[2].contents = route_result.description)
       /\ (Returned =>
             /\ outcome = "result"
             /\ result.type = "CalendarResponse"
             /\ result.success
             /\ result = (IF tag = "new_event"
                          THEN NewEventResponse(requests[2].parsed)
                          ELSE ModifyEventResponse(requests[2].parsed)))

C5_Witness ==
    /\ Routed /\ pc = "module_print"
    /\ route_result.confidence_score >= 70
    /\ route_result.request_type = "modify_event"
    /\ result.type = "CalendarResponse"
    /\ Entered("handle_modify_event")
    /\ user_input # route_result.description

\* C6: in the routing orchestrator, for a tag without a handler (the
\* declared tag other) and a confidence at or above 0.7, no handler is
\* invoked, no error is raised and the run returns None.
C6_UnmatchedTagReturnsNone ==
    (/\ Routed
     /\ route_result.confidence_score >= 70
     /\ route_result.request_type \notin {"new_event", "modify_event"})
    => /\ calls = <<Call("route_calendar_request", user_input)>>
       /\ Len(requests) = 1
       /\ pc \in {"confidence_check", "match", "module_print", "exit"}
       /\ outcome # "error"
       /\ (Returned => result = None /\ outcome = "none")

C6_Witness ==
    /\ Routed /\ pc = "module_print"
    /\ route_result.confidence_score >= 70
    /\ route_result.request_type = "other"
    /\ result = None

Workflow == script \in {Chaining, Routing}

\* the locals of process_calendar_request hold nothing but validated values
LocalsValidated ==
    /\ initial_extraction.type \in {"unbound", "EventExtraction"}
    /\ event_details.type \in {"unbound", "EventDetails"}
    /\ route_result.type \in {"unbound", "CalendarRequestType"}
    /\ details.type \in {"unbound", "NewEventDetails", "ModifyEventDetails"}

\* C7: in both orchestrators, a gateway value that is not an instance of the
\* stage's schema aborts the run at that stage: it is the last gateway call
\* and the last stage of the run, the run is in the error state (it has
\* returned neither a result nor None), and no gate, dispatch or later stage
\* ever sees the invalid value.
C7_SchemaFailureAborts ==
    Workflow =>
      /\ \A i \in 1..Len(requests) :
            ~ Conforms(i) =>
               /\ i = Len(requests)
               /\ Len(calls) = i
               /\ pc = "raised"
               /\ outcome = "error"
      /\ LocalsValidated

C7_Witness ==
    /\ Workflow /\ pc = "raised"
    /\ Len(requests) = 2
    /\ requests[2].parsed = Foreign

\* C8: in both orchestrators a run whose stage outputs all validate never
\* ends in the error state, and a run in which some stage output fails
\* validation never ends with a result or with the absent result.
C8_NoResultIsNotAnError ==
    Workflow =>
      /\ (AllConform => outcome # "error" /\ pc # "raised")
      /\ (~ AllConform => outcome = "error")
      /\ (outcome = "none" => AllConform /\ result = None)

C8_Witness ==
    /\ Workflow /\ pc = "module_print"
    /\ outcome = "none" /\ AllConform /\ result = None
    /\ run = 2

\* C9: every script either gets a value conforming to the declared schema
\* from each structured call or fails: no script runs to its end after a
\* structured call returned a non-conforming or an absent parsed value.
C9_EveryStageValidates ==
    pc = "exit" =>
      \A i \in 1..Len(requests) :
         requests[i].response_schema # "tools" => Conforms(i)

\* C10: no retries: in a run each stage function is entered at most once, each
\* stage makes one gateway call, and the gateway is called at most 3 times by
\* the chaining orchestrator and at most 2 times by the routing orchestrator,
\* however the run ends.
C10_NoRetries ==
    Workflow =>
      /\ \A i, j \in 1..Len(calls) : calls[i].fn = calls[j].fn => i = j
      /\ Len(requests) = Len(calls)
      /\ (script = Chaining => Len(requests) <= 3)
      /\ (script = Routing => Len(requests) <= 2)

C10_Witness ==
    /\ script = Chaining /\ pc = "raised"
    /\ Len(requests) = 3 /\ Len(calls) = 3
    /\ run = 2

\* C11: the confidence gate is a strict less-than against 0.7 on the value as
\* returned, in both orchestrators: a confidence of exactly 0.7 and one above
\* 1 pass the gate (stage 2 or the dispatch is reached), a negative one fails
\* it (None is returned), and no confidence value makes a run with valid
\* stage outputs end in an error.
C11_StrictUnclampedGate ==
    /\ (/\ script = Chaining
        /\ initial_extraction.type = "EventExtraction"
        /\ initial_extraction.is_calendar_event
        /\ pc # "gate")
       => LET c == initial_extraction.confidence_score IN
          /\ (c = 70 \/ c > 100 \/ c >= 70 =>
                pc = "parse_event_details" \/ Entered("parse_event_details"))
          /\ (c < 0 \/ c < 70 =>
                Returned /\ result = None /\ ~ Entered("parse_event_details"))
    /\ (Routed /\ pc # "confidence_check")
       => LET c == route_result.confidence_score
              tag == route_result.request_type IN
          /\ (c >= 70 /\ tag # "other" =>
                pc \in {"match", HandlerOf(tag)} \/ Entered(HandlerOf(tag)))
          /\ (c >= 70 /\ tag = "other" =>
                pc = "match" \/ (Returned /\ result = None))
          /\ (c < 70 => Returned /\ result = None /\ ~ HandlerEntered)
    /\ (Workflow /\ AllConform => outcome # "error")

C11_Witness ==
    /\ script = Chaining /\ pc = "module_print"
    /\ initial_extraction.type = "EventExtraction"
    /\ initial_extraction.is_calendar_event
    /\ initial_extraction.confidence_score = 70
    /\ Entered("generate_confirmation")
    /\ result.type = "EventConfirmation"

ToolScript == script \in {Tools, Retrieval}

\* the function calls requested by the first n parts of the first response,
\* in part order
RequestedCalls(n) ==
    LET requested == SelectSeq(SubSeq(completion.parts, 1, n),
                               LAMBDA p : p.function_call # None)
    IN [j \in 1..Len(requested) |-> requested[j].function_call]

\* the parts of the first response the loop has gone through
PartsDone == IF completion = Unbound THEN 0 ELSE part - 1

\* the positions of the second model call among the gateway calls
FinalCalls == {i \in 1..Len(requests) : requests[i].response_schema # "tools"}

\* the transcript is the initial user turn followed, for each function call
\* requested by the parts gone through so far, in part order, by the model
\* turn carrying the call and the user turn carrying its result, the
\* function having been called once for each
TranscriptShape ==
    LET k == Len(executed)
        fcs == IF completion = Unbound THEN << >> ELSE RequestedCalls(PartsDone)
    IN /\ Len(fcs) = k
       /\ Len(contents) = 1 + 2 * k
       /\ contents[1] = InitialContents(script)[1]
       /\ \A j \in 1..k :
            /\ executed[j].fn = fcs[j].name
            /\ executed[j].arg = fcs[j].args
            /\ contents[2 * j] = Content("model", <<[function_call |-> fcs[j]]>>)
            /\ contents[2 * j + 1] =
                 Content("user",
                   <<[function_response |->
                        [name |-> fcs[j].name,
                         response |-> [result |-> executed[j].result]]]>>)

\* the second model call is made at most once, after the loop has gone through
\* every part, with the whole transcript, which no longer changes
SecondCallAfterAppends ==
    /\ Cardinality(FinalCalls) <= 1
    /\ \A i \in FinalCalls :
         /\ i = 2
         /\ PartsDone = Len(completion.parts)
         /\ requests[i].contents = contents
         /\ Len(contents) = 1 + 2 * Len(RequestedCalls(Len(completion.parts)))

\* the script makes the second model call, once, before it ends
SecondCallMade == Cardinality(FinalCalls) = 1

\* contents' extends contents
GrowsByAppending ==
    /\ Len(contents') >= Len(contents)
    /\ SubSeq(contents', 1, Len(contents)) = contents

Rank(p) ==
    CASE p \in {"extract_event_info", "route_calendar_request"} -> 1
      [] p \in {"gate", "confidence_check"} -> 2
      [] p \in {"parse_event_details", "match"} -> 3
      [] p \in {"generate_confirmation", "handle_new_event",
                "handle_modify_event"} -> 4
      [] p = "module_print" -> 5
      [] OTHER -> 6

\* the run is in exactly the outcome its position and returned value show:
\* running inside the pipeline, an error once raised, and after the return
\* either no result (None) or a result (the final response object)
OutcomeMatchesState ==
    /\ outcome \in {"running", "result", "none", "error"}
    /\ (outcome = "running" <=> Rank(pc) <= 4)
    /\ (outcome = "error" <=> pc = "raised")
    /\ (outcome = "none" => Returned /\ result = None)
    /\ (outcome = "result" =>
          /\ Returned
          /\ result.type = (IF script = Chaining THEN "EventConfirmation"
                                                 ELSE "CalendarResponse"))

\* a step inside a run moves forward along the pipeline (no stage is entered
\* again); a step into the next run starts from a fresh frame: no local, no
\* call and no gateway exchange of the previous run is left
ForwardOrFresh ==
    IF run' = run
    THEN Rank(pc') > Rank(pc)
    ELSE /\ run' = run + 1
         /\ pc' = Entry(script)
         /\ user_input' = ModuleInputs(script)[run']
         /\ outcome' = "running"
         /\ initial_extraction' = Unbound /\ event_details' = Unbound
         /\ route_result' = Unbound /\ details' = Unbound
         /\ calls' = << >> /\ requests' = << >>

\* C13: with every gateway call returning, every run of either orchestrator
\* terminates in exactly one of the outcomes result, no result and fatal
\* error; inside a run the position only moves forward, so no stage is
\* entered again; and the next run starts without any state of the previous.
C13_RunsTerminateIndependently ==
    /\ [](Workflow => OutcomeMatchesState)
    /\ [][Workflow => ForwardOrFresh]_vars
    /\ ((Workflow /\ outcome = "running")
          ~> (outcome \in {"result", "none", "error"}))

C13_Witness ==
    /\ script = Routing /\ run = 3 /\ pc = "exit"
    /\ outcome = "result"
    /\ Len(stdout) = 2
    /\ Len(calls) = 2

====
